---- MODULE Spec2Model ----
(***************************************************************************)
(* Ingest pipeline of AGV_RTLS_V3: BufferManager (buffer_manager.py),      *)
(* MQTTConsumer (mqtt_consumer.py), DatabaseManager.execute_many           *)
(* (database.py) and MQTTClient (mqtt_client.py).                          *)
(*                                                                         *)
(* Readings are numbered 1, 2, 3, ... in the order the broker delivers     *)
(* them, so r1 < r2 means "r1 was delivered to on_message before r2".      *)
(***************************************************************************)
EXTENDS Integers, Sequences, FiniteSets, TLC

(***************************************************************************)
(* Bounds.  MaxSize, RetryMaxLen and BatchSize stand for the program's     *)
(* 10000 (mqtt_consumer.py:33), 1000 (buffer_manager.py:18) and 1000       *)
(* (database.py:160), scaled down and keeping their order:                 *)
(*   BatchSize <= RetryMaxLen < flush threshold (80% of MaxSize) <= MaxSize *)
(***************************************************************************)
MaxMsgs == 4
MaxSize == 3
RetryMaxLen == 2
BatchSize == 2
MaxTopics == 3
MaxAttempts == 3

VARIABLES
    buffer,        \* BufferManager.buffer: deque(maxlen=max_size) of readings
    retry_buffer,  \* BufferManager.retry_buffer: deque(maxlen=1000) of retry items
    stats,         \* BufferManager.stats
    ret,           \* the last BufferManager.add call: its argument and return value
    cstats,        \* MQTTConsumer.stats (the three message counters)
    running,       \* MQTTConsumer.running
    client,        \* MQTTConsumer.client: "none", "open" (connected) or "closed"
    sink,          \* rows committed to agv_positions
    lastMsg,       \* the last message on_message took: its inputs and event writes
    nextId,        \* number of readings delivered (or handed to add) so far
    pc,            \* position of each execution context
    batch,         \* the local variable `batch` of each context's _flush_buffer
    ri,            \* how many items of `batch` the except-branch has re-added
    accepted,      \* history: readings for which add(data) returned True
    drained,       \* history: the readings get_batch popped, in pop order
    stopSnap,      \* history: the main buffer's contents when stop() began
    connected,     \* MQTTClient.connected
    has_client,    \* MQTTClient.client is not None
    topics,        \* MQTTClient.config['topics'], a list
    callbacks,     \* the keys of MQTTClient.callbacks
    subscribed,    \* the topics the client has subscribed on its connection
    reconnect_timer, \* MQTTClient.reconnect_timer: "none", "pending" or "fired"
    timer_delay,   \* the delay the last reconnect timer was started with
    connection_attempts, \* MQTTClient.stats['connection_attempts']
    awaiting,      \* a connect() gave up waiting and its CONNACK may still come
    wanted,        \* history: topics passed to subscribe() and not unsubscribed since
    needReconnect, \* history: the connection was lost and is not yet back
    since_up,      \* history: connect() calls made since the connection was last
                   \* established
    timer_attempt, \* history: since_up when the reconnect timer was last started
    closed,        \* history: disconnect() was called and connect() has not been
                   \* called by the owner since
    plant_zones,   \* the rows of the database table plant_zones, by zone_id
    zm_zones,      \* ZoneManager.zones: zone_id -> row as loaded
    zm_polygons,   \* the keys of ZoneManager.zone_polygons
    tm_zones,      \* the zone ids of TransformManager.zones (assets/zones.geojson)
    violations,    \* the types of the violations the last check_zone_rules returned
    zcheck,        \* the last check_zone_rules call: its zone and the registry status
    zlast,         \* the last create_zone / update_zone / delete_zone call and its result
    history,       \* AnomalyDetector.history: agv_id -> deque of readings (empty
                   \* when the entity has no entry yet)
    models,        \* AnomalyDetector.models: agv_id -> 0 when absent, else the
                   \* number of history rows the model was fitted on
    anomalies,     \* the anomalies the last check() call collected
    checked,       \* the agv_id of the last check() call
    checks,        \* history: agv_id -> number of check() calls (saturating)
    fits,          \* history: agv_id -> number of models _train_model fitted
                   \* (saturating)
    base,          \* environment: the reading the entity keeps reporting
    spiked,        \* environment: the entity has reported its one deviating reading
    vdata,         \* the reading the next DataValidator.validate call is given
    vstats,        \* DataValidator.stats
    vret,          \* the last validate call on vdata, if any, and its return value
    cache,         \* TransformManager.cache: (lat, lon) -> (plant_x, plant_y)
    affine_matrix, \* TransformManager.affine_matrix
    tret,          \* the last to_plant_coords call: its reading, its return value
                   \* and the affine_matrix it ran with
    message_queue, \* MQTTClient.message_queue: the queued outbound messages, each
                   \* with the id of its payload and its 'timestamp'
    qnow,          \* the clock (datetime.now()), in seconds
    qpc,           \* "loop" while on_connect is inside _process_queue, else "idle"
    first_queued,  \* history: payload id -> when publish() was first called with it
                   \* (-1: not yet)
    sent,          \* history: the payloads client.publish accepted, each with its
                   \* age since first_queued at that moment
    w_pc,          \* where the thread that mutates the zones is: "idle", or the
                   \* statement of delete_zone / load_zones it executes next
    w_zone,        \* the zone_id delete_zone was given / the row the loop is at
    w_rows,        \* the rows of db_zones the loop of load_zones has yet to take
    r_pc,          \* "iter" while get_zone_at_position is in its for loop
    r_point,       \* the point of that call
    r_visited,     \* the keys the iterator has yielded
    r_used,        \* the size of zone_polygons the iterator noted (di_used)
    r_result       \* what the last get_zone_at_position returned or raised

bufVars == <<buffer, retry_buffer, stats, ret>>
conVars == <<cstats, running, client, sink, lastMsg, pc, batch, ri,
             accepted, drained, stopSnap>>
cliHist == <<since_up, timer_attempt, closed>>
cliVars == <<connected, has_client, topics, callbacks, subscribed, reconnect_timer,
             timer_delay, connection_attempts, awaiting, wanted, needReconnect,
             cliHist>>
zoneVars == <<plant_zones, zm_zones, zm_polygons, tm_zones, violations, zcheck, zlast>>
detVars == <<history, models, anomalies, checked, checks, fits, base, spiked>>
valVars == <<vdata, vstats, vret>>
trVars == <<cache, affine_matrix, tret>>
queueVars == <<message_queue, qnow, qpc, first_queued, sent>>
zoneStepVars == <<w_pc, w_zone, w_rows, r_pc, r_point, r_visited, r_used, r_result>>
auxVars == <<zoneVars, detVars, valVars, trVars, queueVars, zoneStepVars>>
otherThanZone == <<detVars, valVars, trVars, queueVars>>
otherThanZoneSteps == <<zoneStepVars, otherThanZone>>
otherThanDet == <<zoneVars, valVars, trVars, queueVars, zoneStepVars>>
otherThanVal == <<zoneVars, detVars, trVars, queueVars, zoneStepVars>>
otherThanTr == <<zoneVars, detVars, valVars, queueVars, zoneStepVars>>
otherThanQueue == <<zoneVars, detVars, valVars, trVars, zoneStepVars>>
vars == <<bufVars, conVars, nextId, cliVars, auxVars>>

(***************************************************************************)
(* Execution contexts.  "om" is on_message and "stop" is stop(); both run  *)
(* on the thread of loop_forever (stop() is entered from the signal        *)
(* handler, which interrupts that thread).  "pf" is the periodic_flush     *)
(* thread.  periodic_stats only reads the counters and is left out.        *)
(***************************************************************************)
Contexts == {"om", "pf", "stop"}

Min(a, b) == IF a < b THEN a ELSE b

Range(s) == {s[i] : i \in 1..Len(s)}

\* DequeAppend with the fault that the deque was created without maxlen.
DequeAppendNoMaxlen(q, x, maxlen) == Append(q, x)

\* collections.deque(maxlen=n).append(x): a full deque discards its leftmost
\* item to make room; append never raises.
DequeAppend(q, x, maxlen) ==
    IF Len(q) >= maxlen THEN Tail(q) \o <<x>> ELSE Append(q, x)

\* RetryItem with the fault that the attempt count starts at 0.
RetryItemZeroAttempts(data) == [data |-> data, attempts |-> 0]

\* The dict add(data, retry=True) appends.  Its 'timestamp' (datetime.now())
\* is left out: no code reads it.
RetryItem(data) == [data |-> data, attempts |-> 1]

\* GetBatchItems with the fault that get_batch pops from the right end (pop()).
GetBatchItemsPop(buf, n) == [i \in 1..n |-> buf[Len(buf) + 1 - i]]

\* The n items get_batch pops with popleft(), in pop order.
GetBatchItems(buf, n) == SubSeq(buf, 1, n)

\* BufferManager.should_flush: len(buffer) >= max_size * 0.8
ShouldFlush(buf) == 10 * Len(buf) >= 8 * MaxSize

\* BufferManager.is_empty
IsEmpty(buf) == Len(buf) = 0

(***************************************************************************)
(* BufferManager.add(data, retry), one critical section.  The except       *)
(* branch (dropped += 1, return False) is reached only if append raises,   *)
(* which deque.append does not do.                                         *)
(***************************************************************************)
Add(data, retry) ==
    /\ IF retry
          THEN /\ retry_buffer' = DequeAppend(retry_buffer, RetryItem(data), RetryMaxLen)
               /\ stats' = [stats EXCEPT !.retried = @ + 1]
               /\ UNCHANGED buffer
          ELSE /\ buffer' = DequeAppend(buffer, data, MaxSize)
               /\ stats' = [stats EXCEPT !.added = @ + 1]
               /\ UNCHANGED retry_buffer
    /\ ret' = [arg |-> data, retry |-> retry, val |-> TRUE]

\* GetBatch with the fault that the items it returns stay in the buffer.
GetBatchKeeps(c, size) ==
    LET sz == IF size = -1 THEN Len(buffer) ELSE size
        n  == Min(sz, Len(buffer))
    IN  /\ batch' = [batch EXCEPT ![c] = GetBatchItems(buffer, n)]
        /\ buffer' = buffer
        /\ stats' = [stats EXCEPT !.flushed = @ + n]
        /\ drained' = drained \o GetBatchItems(buffer, n)

(***************************************************************************)
(* BufferManager.get_batch(size) for context c, one critical section.      *)
(* size = -1 stands for None.                                              *)
(***************************************************************************)
GetBatch(c, size) ==
    LET sz == IF size = -1 THEN Len(buffer) ELSE size
        n  == Min(sz, Len(buffer))
    IN  /\ batch' = [batch EXCEPT ![c] = GetBatchItems(buffer, n)]
        /\ buffer' = SubSeq(buffer, n + 1, Len(buffer))
        /\ stats' = [stats EXCEPT !.flushed = @ + n]
        /\ drained' = drained \o GetBatchItems(buffer, n)

\* A reading as check() gets it from on_message.  quality is in percent (the
\* program's 0..1 times 100); plant_x is the position along the track, plant_y
\* is the same in every reading and left out.
Reading(sp, hd, bat, x) ==
    [speed_mps |-> sp, heading_deg |-> hd, quality |-> 100,
     battery_percent |-> bat, plant_x |-> x]

NoReading == Reading(0, 0, 0, 0)

\* The entities that report: "A1", whose readings vary, and a second one.
AgvIds == {"A1", "A2"}

ZoneIds == {"z1", "z2"}
ZoneTypes == {"OPERATIONAL", "RESTRICTED", "MAINTENANCE"}

\* No row of plant_zones / no entry of ZoneManager.zones for a zone id.
NoZone == [present |-> FALSE, active |-> FALSE, zone_type |-> "OPERATIONAL",
           max_speed_mps |-> 0]

\* A row of plant_zones (the columns the rules read), as create_zone inserts
\* it: max_speed_mps is left to its default, 2.0.
ZoneRow(ty) == [present |-> TRUE, active |-> TRUE, zone_type |-> ty,
                max_speed_mps |-> 2]

\* The fields of a reading that DataValidator's schema and business rules
\* constrain (plant_x, plant_y and status carry a type and no range).
Fields == {"agv_id", "ts", "lat", "lon", "heading_deg", "speed_mps", "quality",
           "battery_percent"}

\* A timestamp string: whether datetime.fromisoformat parses it and, if so,
\* its age in seconds when validate looks at the clock.
TsAge(a) == [parseable |-> TRUE, age |-> a]
TsUnparseable == [parseable |-> FALSE, age |-> 0]

\* A reading carrying every field, each at an end of what validate allows.
BaseValue(f) ==
    CASE f = "agv_id" -> "A1"
      [] f = "ts" -> TsAge(3600)
      [] f = "lat" -> 90
      [] f = "lon" -> -180
      [] f = "heading_deg" -> 360
      [] f = "speed_mps" -> 10
      [] f = "quality" -> 1
      [] f = "battery_percent" -> 0

BaseData == [f \in Fields |-> BaseValue(f)]

\* np.eye(3), what _load_affine returns when no matrix file exists; a matrix
\* is written by its first two rows, [a b tx] and [c d ty].
Eye3 == [a |-> 1, b |-> 0, tx |-> 0, c |-> 0, d |-> 1, ty |-> 0]

NoCall == [called |-> FALSE, local |-> FALSE, hit |-> FALSE, lat |-> 0, lon |-> 0,
           x |-> 0, y |-> 0, matrix |-> Eye3]

\* The payloads the owner of the client publishes, numbered.
MaxPub == 2
Payloads == 1..MaxPub

Init ==
    /\ w_pc = "idle"
    /\ w_zone = "z1"
    /\ w_rows = {}
    /\ r_pc = "idle"
    /\ r_point = "p0"
    /\ r_visited = {}
    /\ r_used = 0
    /\ r_result = "pending"
    /\ message_queue = <<>>
    /\ qnow = 0
    /\ qpc = "idle"
    /\ first_queued = [m \in Payloads |-> -1]
    /\ sent = {}
    /\ vdata = BaseData
    /\ vstats = [valid |-> 0, invalid |-> 0]
    /\ vret = [called |-> FALSE, val |-> FALSE]
    /\ cache = <<>>
    /\ affine_matrix = Eye3
    /\ tret = NoCall
    /\ plant_zones = [z \in ZoneIds |-> IF z = "z1" THEN ZoneRow("OPERATIONAL")
                                                    ELSE NoZone]
    /\ zm_zones = [z \in ZoneIds |-> IF z = "z1" THEN ZoneRow("OPERATIONAL")
                                                 ELSE NoZone]
    /\ zm_polygons = {"z1"}
    /\ tm_zones = {"z1"}
    /\ violations = {}
    /\ zcheck = [zone |-> "z1", known |-> FALSE, zone_type |-> "OPERATIONAL",
                 status |-> "ACTIVE"]
    /\ zlast = [op |-> "none", zone |-> "z1", ok |-> FALSE]
    /\ history = [a \in AgvIds |-> <<>>]
    /\ models = [a \in AgvIds |-> 0]
    /\ anomalies = {}
    /\ checked = "A1"
    /\ checks = [a \in AgvIds |-> 0]
    /\ fits = [a \in AgvIds |-> 0]
    /\ base = NoReading
    /\ spiked = FALSE
    /\ buffer = <<>>
    /\ retry_buffer = <<>>
    /\ stats = [added |-> 0, flushed |-> 0, dropped |-> 0, retried |-> 0]
    /\ ret = [arg |-> 0, retry |-> FALSE, val |-> TRUE]
    /\ cstats = [received |-> 0, processed |-> 0, failed |-> 0]
    /\ running = FALSE
    /\ client = "none"
    /\ sink = {}
    /\ lastMsg = [id |-> 0, valid |-> FALSE, anom |-> FALSE, written |-> 0,
                  evFail |-> FALSE, stages |-> {}, emitted |-> 0, issued |-> 0]
    /\ nextId = 0
    /\ pc = [c \in Contexts |-> "idle"]
    /\ batch = [c \in Contexts |-> <<>>]
    /\ ri = [c \in Contexts |-> 0]
    /\ accepted = {}
    /\ drained = <<>>
    /\ stopSnap = <<>>
    /\ connected = FALSE
    /\ has_client = FALSE
    /\ topics = <<>>
    /\ callbacks = {}
    /\ subscribed = {}
    /\ reconnect_timer = "none"
    /\ timer_delay = 0
    /\ connection_attempts = 0
    /\ awaiting = FALSE
    /\ wanted = {}
    /\ needReconnect = FALSE
    /\ since_up = 0
    /\ timer_attempt = 0
    /\ closed = FALSE

(***************************************************************************)
(* MQTTConsumer                                                            *)
(***************************************************************************)

\* What a context does when its _flush_buffer call returns: on_message goes on
\* to count the message as processed, periodic_flush loops, stop() disconnects.
FlushReturn(c) ==
    /\ pc' = [pc EXCEPT ![c] = CASE c = "om" -> "idle"
                                 [] c = "pf" -> "idle"
                                 [] c = "stop" -> "disconnect"]
    /\ cstats' = IF c = "om" THEN [cstats EXCEPT !.processed = @ + 1] ELSE cstats
    /\ batch' = [batch EXCEPT ![c] = <<>>]
    /\ ri' = [ri EXCEPT ![c] = 0]

\* The process is alive (sys.exit has not run) and the loop thread is not
\* inside the signal handler.
Alive == pc["stop"] # "stopped"
LoopThreadFree == pc["stop"] = "idle"

\* start(): running = True, connect, start the periodic threads, loop_forever.
\* When connect raises, main() calls stop() and exits.
Start(ok) ==
    /\ UNCHANGED <<cliVars, auxVars>>
    /\ client = "none" /\ ~running /\ Alive
    /\ IF ok
          THEN /\ running' = TRUE
               /\ client' = "open"
               /\ UNCHANGED pc
          ELSE /\ running' = FALSE
               /\ client' = "closed"
               /\ pc' = [pc EXCEPT !["stop"] = "stopped"]
    /\ UNCHANGED <<bufVars, cstats, sink, lastMsg, nextId, batch, ri,
                   accepted, drained, stopSnap>>

\* The number of event rows on_message commits for a reading with an anomaly:
\* one in _log_anomalies unless that write fails (caught and logged there), one
\* in _handle_anomaly unless that write fails (not caught there).
EventsWritten(anom, logFail, handlerFail) ==
    IF anom THEN (IF logFail THEN 0 ELSE 1) + (IF handlerFail THEN 0 ELSE 1)
            ELSE 0

\* The number of event writes on_message issues (execute_query calls, whether
\* they go through or raise) for a reading: _log_anomalies issues one for the
\* anomaly and catches what it raises, so _handle_anomaly is always reached
\* and issues one more ('ANOMALY_DETECTED') for the same reading.
EventsIssued(anom) == IF anom THEN 2 ELSE 0

\* The number of anomalies the detection methods emit for a reading (the
\* model takes an anomalous reading to carry one anomaly).
AnomaliesEmitted(anom) == IF anom THEN 1 ELSE 0

\* OmStages with the fault that on_message does not return after a rejection.
OmStagesNoReturn(valid) == {"transform", "get_zone", "check", "add"}

\* The stages on_message runs on a reading after validator.validate(data):
\* to_plant_coords, get_zone, anomaly_detector.check (which appends the reading
\* to the entity's history) and buffer.add; none when validate returned False,
\* since on_message then counts the message failed and returns.
OmStages(valid) ==
    IF valid THEN {"transform", "get_zone", "check", "add"} ELSE {}

\* on_message up to and including self.buffer.add(data).
\*   valid:       the payload parses and the validator accepts it
\*   anom:        anomaly_detector.check finds an anomaly
\*   logFail:     the event write in _log_anomalies raises
\*   handlerFail: the event write in _handle_anomaly raises
OnMessage(valid, anom, logFail, handlerFail) ==
    LET r == nextId + 1
        raised == anom /\ handlerFail
        stages == IF raised THEN OmStages(valid) \ {"add"} ELSE OmStages(valid)
    IN  /\ UNCHANGED <<cliVars, auxVars>>
        /\ client = "open" /\ Alive /\ LoopThreadFree
        /\ pc["om"] = "idle"
        /\ nextId < MaxMsgs
        /\ nextId' = r
        /\ lastMsg' = [id |-> r, valid |-> valid, anom |-> anom,
                       written |-> EventsWritten(anom, logFail, handlerFail),
                       evFail |-> anom /\ (logFail \/ handlerFail),
                       stages |-> stages,
                       emitted |-> AnomaliesEmitted(anom),
                       issued |-> EventsIssued(anom)]
        /\ IF "add" \notin stages
              THEN \* rejected by the validator, or _handle_anomaly raised
                   /\ cstats' = [cstats EXCEPT !.received = @ + 1, !.failed = @ + 1]
                   /\ UNCHANGED <<bufVars, accepted, pc>>
              ELSE /\ cstats' = [cstats EXCEPT !.received = @ + 1]
                   /\ Add(r, FALSE)
                   /\ accepted' = accepted \cup {r}
                   /\ pc' = [pc EXCEPT !["om"] = "should_flush"]
        /\ UNCHANGED <<running, client, sink, batch, ri, drained, stopSnap>>

\* on_message: if self.buffer.should_flush(): self._flush_buffer(); then
\* messages_processed += 1.
OmShouldFlush ==
    /\ UNCHANGED <<cliVars, auxVars>>
    /\ pc["om"] = "should_flush" /\ Alive /\ LoopThreadFree
    /\ IF ShouldFlush(buffer)
          THEN /\ pc' = [pc EXCEPT !["om"] = "get_batch"]
               /\ UNCHANGED cstats
          ELSE /\ pc' = [pc EXCEPT !["om"] = "idle"]
               /\ cstats' = [cstats EXCEPT !.processed = @ + 1]
    /\ UNCHANGED <<bufVars, running, client, sink, lastMsg, nextId, batch, ri,
                   accepted, drained, stopSnap>>

CanRun(c) == Alive /\ (c = "om" => LoopThreadFree)

\* _flush_buffer: batch = self.buffer.get_batch(); if not batch: return
FlushGetBatch(c) ==
    /\ UNCHANGED <<cliVars, auxVars>>
    /\ pc[c] = "get_batch" /\ CanRun(c)
    /\ IF IsEmpty(buffer)
          THEN /\ FlushReturn(c)
               /\ UNCHANGED <<buffer, stats, drained>>
          ELSE /\ GetBatch(c, -1)
               /\ pc' = [pc EXCEPT ![c] = "write"]
               /\ UNCHANGED <<cstats, ri>>
    /\ UNCHANGED <<retry_buffer, ret, running, client, sink, lastMsg, nextId,
                   accepted, stopSnap>>

\* The number of executemany chunks execute_many cuts n tuples into.
Chunks(n) == (n + BatchSize - 1) \div BatchSize

\* The rows execute_many has committed once k of its chunks went through:
\* it commits after every chunk of batch_size tuples.
Committed(b, k) == {b[i] : i \in 1..Min(k * BatchSize, Len(b))}

\* _flush_buffer: db_manager.execute_many(insert_query, data_tuples).
\*   k: the number of chunks inserted and committed before anything raises
\* (pool.connection(), an executemany or its commit).  With k < Chunks the
\* write has failed at chunk k + 1 and get_connection rolls that chunk back;
\* with k = Chunks it has succeeded (the closing commit of get_connection,
\* with nothing pending, is taken not to fail).
FlushWrite(c, k) ==
    /\ UNCHANGED <<cliVars, auxVars>>
    /\ pc[c] = "write" /\ CanRun(c)
    /\ k \in 0..Chunks(Len(batch[c]))
    /\ sink' = sink \cup Committed(batch[c], k)
    /\ IF k < Chunks(Len(batch[c]))
          THEN /\ pc' = [pc EXCEPT ![c] = "readd"]
               /\ ri' = [ri EXCEPT ![c] = 0]
               /\ UNCHANGED <<cstats, batch>>
          ELSE FlushReturn(c)
    /\ UNCHANGED <<bufVars, running, client, lastMsg, nextId,
                   accepted, drained, stopSnap>>

\* _flush_buffer, except branch: for item in batch: self.buffer.add(item, retry=True)
FlushReadd(c) ==
    /\ UNCHANGED <<cliVars, auxVars>>
    /\ pc[c] = "readd" /\ CanRun(c)
    /\ ri[c] < Len(batch[c])
    /\ Add(batch[c][ri[c] + 1], TRUE)
    /\ ri' = [ri EXCEPT ![c] = @ + 1]
    /\ UNCHANGED <<cstats, running, client, sink, lastMsg, nextId, pc, batch,
                   accepted, drained, stopSnap>>

\* _flush_buffer returns after the except branch has re-added the whole batch.
FlushReaddDone(c) ==
    /\ UNCHANGED <<cliVars, auxVars>>
    /\ pc[c] = "readd" /\ CanRun(c)
    /\ ri[c] = Len(batch[c])
    /\ FlushReturn(c)
    /\ UNCHANGED <<bufVars, running, client, sink, lastMsg, nextId,
                   accepted, drained, stopSnap>>

\* periodic_flush: while self.running: time.sleep(1)
PfLoop ==
    /\ UNCHANGED <<cliVars, auxVars>>
    /\ pc["pf"] = "idle" /\ Alive /\ client # "none"
    /\ pc' = [pc EXCEPT !["pf"] = IF running THEN "sleep" ELSE "exit"]
    /\ UNCHANGED <<bufVars, cstats, running, client, sink, lastMsg, nextId,
                   batch, ri, accepted, drained, stopSnap>>

\* PfCheck with the fault that the thread flushes only when should_flush()
\* says so.
PfCheckAtThreshold ==
    /\ UNCHANGED <<cliVars, auxVars>>
    /\ pc["pf"] = "sleep" /\ Alive
    /\ pc' = [pc EXCEPT !["pf"] = IF ShouldFlush(buffer) THEN "get_batch" ELSE "idle"]
    /\ UNCHANGED <<bufVars, cstats, running, client, sink, lastMsg, nextId,
                   batch, ri, accepted, drained, stopSnap>>

\* periodic_flush: if not self.buffer.is_empty(): self._flush_buffer()
PfCheck ==
    /\ UNCHANGED <<cliVars, auxVars>>
    /\ pc["pf"] = "sleep" /\ Alive
    /\ pc' = [pc EXCEPT !["pf"] = IF IsEmpty(buffer) THEN "idle" ELSE "get_batch"]
    /\ UNCHANGED <<bufVars, cstats, running, client, sink, lastMsg, nextId,
                   batch, ri, accepted, drained, stopSnap>>

\* stop(): self.running = False; if not self.buffer.is_empty(): self._flush_buffer()
StopBegin ==
    /\ UNCHANGED <<cliVars, auxVars>>
    /\ pc["stop"] = "idle" /\ running /\ client = "open"
    /\ running' = FALSE
    /\ stopSnap' = buffer
    /\ pc' = [pc EXCEPT !["stop"] = IF IsEmpty(buffer) THEN "disconnect"
                                                       ELSE "get_batch"]
    /\ UNCHANGED <<bufVars, cstats, client, sink, lastMsg, nextId, batch, ri,
                   accepted, drained>>

\* stop(): self.client.disconnect(); self.client.loop_stop(); the caller
\* (_signal_handler or main) then exits the process.
StopDisconnect ==
    /\ UNCHANGED <<cliVars, auxVars>>
    /\ pc["stop"] = "disconnect"
    /\ client' = "closed"
    /\ pc' = [pc EXCEPT !["stop"] = "stopped"]
    /\ UNCHANGED <<bufVars, cstats, running, sink, lastMsg, nextId, batch, ri,
                   accepted, drained, stopSnap>>

Next ==
    \/ \E ok \in BOOLEAN : Start(ok)
    \/ \E valid, anom, logFail, handlerFail \in BOOLEAN :
          /\ (~valid => ~anom)
          /\ (~anom => ~logFail /\ ~handlerFail)
          /\ OnMessage(valid, anom, logFail, handlerFail)
    \/ OmShouldFlush
    \/ \E c \in Contexts : FlushGetBatch(c)
    \/ \E c \in Contexts, k \in 0..MaxSize : FlushWrite(c, k)
    \/ \E c \in Contexts : FlushReadd(c)
    \/ \E c \in Contexts : FlushReaddDone(c)
    \/ PfLoop
    \/ PfCheck
    \/ StopBegin
    \/ StopDisconnect

Spec == Init /\ [][Next]_vars

(***************************************************************************)
(* BufferManager driven directly through its public methods, by any        *)
(* caller: add(data, retry) with fresh data and get_batch(size).           *)
(***************************************************************************)
BmAdd(retry) ==
    /\ UNCHANGED <<cliVars, auxVars>>
    /\ nextId < MaxMsgs
    /\ nextId' = nextId + 1
    /\ Add(nextId + 1, retry)
    /\ accepted' = IF retry THEN accepted ELSE accepted \cup {nextId + 1}
    /\ UNCHANGED <<cstats, running, client, sink, lastMsg, pc, batch, ri,
                   drained, stopSnap>>

BmGetBatch(size) ==
    /\ UNCHANGED <<cliVars, auxVars>>
    /\ GetBatch("pf", size)
    /\ UNCHANGED <<retry_buffer, ret, cstats, running, client, sink, lastMsg,
                   pc, ri, accepted, stopSnap, nextId>>

BufNext ==
    \/ \E retry \in BOOLEAN : BmAdd(retry)
    \/ \E size \in -1..MaxSize : BmGetBatch(size)

BufSpec == Init /\ [][BufNext]_vars

(***************************************************************************)
(* MQTTClient (mqtt_client.py)                                             *)
(***************************************************************************)
Topics == {"a", "b"}

reconnect_delay == 5
max_reconnect_delay == 60

\* list.remove(x): the list without the first occurrence of x.
RemoveFirst(s, x) ==
    LET i == CHOOSE k \in 1..Len(s) : s[k] = x /\ \A j \in 1..(k - 1) : s[j] # x
    IN  SubSeq(s, 1, i - 1) \o SubSeq(s, i + 1, Len(s))

\* _schedule_reconnect: the delay of the timer it starts.
ReconnectDelay(attempts) ==
    Min(reconnect_delay * (2 ^ Min(attempts, 5)), max_reconnect_delay)

\* _schedule_reconnect: cancel the old timer, start a new one.
ScheduleReconnect(attempts) ==
    /\ reconnect_timer' = "pending"
    /\ timer_delay' = ReconnectDelay(attempts)

ConnectOutcomes == {"ok", "refused", "raise", "timeout"}

\* on_connect(client, userdata, flags, rc), after `attempts` connect() calls;
\* timer is the state of the reconnect timer when it runs.  With rc = 0 it
\* marks the client connected and subscribes every entry of config['topics']
\* and then runs _process_queue, which returns at once on an empty queue, as
\* the queue is wherever nothing was published (its loop is ProcessQueue
\* below); otherwise it schedules a reconnect.
OnConnect(rc, attempts, timer) ==
    IF rc = 0
       THEN /\ connected' = TRUE
            /\ subscribed' = Range(topics)
            /\ needReconnect' = FALSE
            /\ reconnect_timer' = timer
            /\ UNCHANGED timer_delay
       ELSE /\ connected' = FALSE
            /\ subscribed' = {}
            /\ ScheduleReconnect(attempts)
            /\ UNCHANGED needReconnect

\* connect(), with on_connect when the CONNACK arrives within the 10 s wait.
\*   "ok":      CONNACK rc = 0
\*   "refused": CONNACK rc # 0
\*   "raise":   client.connect raises; connect logs it and returns False
\*   "timeout": no CONNACK within 10 s; connect returns False
ConnectBody(outcome, timer) ==
    /\ connection_attempts' = connection_attempts + 1
    /\ has_client' = TRUE
    /\ since_up' = IF outcome = "ok" THEN 0 ELSE since_up + 1
    /\ timer_attempt' = IF outcome = "refused" THEN since_up + 1 ELSE timer_attempt
    /\ CASE outcome = "ok" ->
              /\ OnConnect(0, connection_attempts + 1, timer)
              /\ UNCHANGED awaiting
         [] outcome = "refused" ->
              /\ OnConnect(5, connection_attempts + 1, timer)
              /\ UNCHANGED awaiting
         [] outcome = "raise" ->
              /\ reconnect_timer' = timer
              /\ UNCHANGED <<connected, subscribed, needReconnect, timer_delay, awaiting>>
         [] outcome = "timeout" ->
              /\ reconnect_timer' = timer
              /\ awaiting' = TRUE
              /\ UNCHANGED <<connected, subscribed, needReconnect, timer_delay>>

\* connect() called by the owner of the client.
Connect(outcome) ==
    /\ connection_attempts < MaxAttempts
    /\ ~connected
    /\ ConnectBody(outcome, reconnect_timer)
    /\ closed' = FALSE
    /\ UNCHANGED <<topics, callbacks, wanted>>
    /\ UNCHANGED <<bufVars, conVars, nextId, auxVars>>

\* The reconnect timer fires: _reconnect calls connect() and drops its result.
TimerFires(outcome) ==
    /\ reconnect_timer = "pending"
    /\ connection_attempts < MaxAttempts
    /\ ConnectBody(outcome, "fired")
    /\ UNCHANGED <<topics, callbacks, wanted, closed>>
    /\ UNCHANGED <<bufVars, conVars, nextId, auxVars>>

\* The CONNACK of a connect() that had given up waiting arrives: on_connect(rc).
LateConnAck(rc) ==
    /\ awaiting
    /\ awaiting' = FALSE
    /\ OnConnect(rc, connection_attempts, reconnect_timer)
    /\ since_up' = IF rc = 0 THEN 0 ELSE since_up
    /\ timer_attempt' = IF rc = 0 THEN timer_attempt ELSE since_up
    /\ UNCHANGED <<has_client, topics, callbacks, connection_attempts, wanted, closed>>
    /\ UNCHANGED <<bufVars, conVars, nextId, auxVars>>

\* on_disconnect(rc) with rc # 0: the connection was lost.
OnDisconnect ==
    /\ connected
    /\ connected' = FALSE
    /\ subscribed' = {}
    /\ ScheduleReconnect(connection_attempts)
    /\ needReconnect' = TRUE
    /\ timer_attempt' = since_up
    /\ UNCHANGED <<has_client, topics, callbacks, connection_attempts, awaiting, wanted,
                   since_up, closed>>
    /\ UNCHANGED <<bufVars, conVars, nextId, auxVars>>

\* disconnect(), and the on_disconnect(0) it brings: no reconnect is
\* scheduled and a timer that is pending is left alone.
Disconnect ==
    /\ has_client
    /\ connected' = FALSE
    /\ subscribed' = {}
    /\ awaiting' = FALSE
    /\ needReconnect' = FALSE
    /\ closed' = TRUE
    /\ UNCHANGED <<has_client, topics, callbacks, reconnect_timer, timer_delay,
                   connection_attempts, wanted, since_up, timer_attempt>>
    /\ UNCHANGED <<bufVars, conVars, nextId, auxVars>>

\* subscribe(topic, callback)
Subscribe(t, cb) ==
    /\ Len(topics) < MaxTopics
    /\ topics' = Append(topics, t)
    /\ callbacks' = IF cb THEN callbacks \cup {t} ELSE callbacks
    /\ subscribed' = IF connected /\ has_client THEN subscribed \cup {t} ELSE subscribed
    /\ wanted' = wanted \cup {t}
    /\ UNCHANGED <<connected, has_client, reconnect_timer, timer_delay,
                   connection_attempts, awaiting, needReconnect, cliHist>>
    /\ UNCHANGED <<bufVars, conVars, nextId, auxVars>>

\* unsubscribe(topic)
Unsubscribe(t) ==
    /\ topics' = IF t \in Range(topics) THEN RemoveFirst(topics, t) ELSE topics
    /\ callbacks' = callbacks \ {t}
    /\ subscribed' = IF connected /\ has_client THEN subscribed \ {t} ELSE subscribed
    /\ wanted' = wanted \ {t}
    /\ UNCHANGED <<connected, has_client, reconnect_timer, timer_delay,
                   connection_attempts, awaiting, needReconnect, cliHist>>
    /\ UNCHANGED <<bufVars, conVars, nextId, auxVars>>

ClientNext ==
    \/ \E outcome \in ConnectOutcomes : Connect(outcome)
    \/ \E outcome \in ConnectOutcomes : TimerFires(outcome)
    \/ \E rc \in {0, 5} : LateConnAck(rc)
    \/ OnDisconnect
    \/ Disconnect
    \/ \E t \in Topics, cb \in BOOLEAN : Subscribe(t, cb)
    \/ \E t \in Topics : Unsubscribe(t)

ClientSpec == Init /\ [][ClientNext]_vars

(***************************************************************************)
(* MQTTClient's publish-side queue: publish, _queue_message and            *)
(* _process_queue, which on_connect runs on the network thread while the   *)
(* owner of the client goes on calling publish() and disconnect().         *)
(***************************************************************************)
QueueMax == 2
MaxTime == 500

StalenessWindow == 300

\* timedelta.seconds: the seconds field of the normalised timedelta (days,
\* seconds, microseconds), not the whole duration.
TimedeltaSeconds(delta) == delta % 86400

\* _queue_message: put_nowait a dict stamped datetime.now(); on a full queue
\* the bare except logs and the message is gone.
QueueMessage(q, m) ==
    IF Len(q) >= QueueMax THEN q ELSE Append(q, [id |-> m, timestamp |-> qnow])

\* publish(topic, payload) with payload m, q being the queue when it is
\* called; ok: client.publish returns MQTT_ERR_SUCCESS (otherwise it returns
\* another code or raises).
PublishTo(q, m, ok) ==
    IF connected /\ has_client /\ ok
       THEN /\ sent' = sent \cup {[id |-> m, age |-> qnow - first_queued[m]]}
            /\ message_queue' = q
       ELSE /\ message_queue' = QueueMessage(q, m)
            /\ UNCHANGED sent

\* The owner calls publish() with its next payload.
Publish(m, ok) ==
    /\ m \in Payloads
    /\ first_queued[m] = -1
    /\ \A k \in Payloads : k < m => first_queued[k] # -1
    /\ ok => connected /\ has_client
    /\ first_queued' = [first_queued EXCEPT ![m] = qnow]
    /\ IF connected /\ has_client /\ ok
          THEN /\ sent' = sent \cup {[id |-> m, age |-> 0]}
               /\ UNCHANGED message_queue
          ELSE PublishTo(message_queue, m, ok)
    /\ UNCHANGED <<qnow, qpc>>
    /\ UNCHANGED <<bufVars, conVars, nextId, cliVars, otherThanQueue>>

\* connect() succeeds: on_connect(rc = 0) runs and enters _process_queue.
QConnect ==
    /\ connection_attempts < MaxAttempts
    /\ ~connected
    /\ qpc = "idle"
    /\ ConnectBody("ok", reconnect_timer)
    /\ closed' = FALSE
    /\ qpc' = "loop"
    /\ UNCHANGED <<topics, callbacks, wanted>>
    /\ UNCHANGED <<message_queue, qnow, first_queued, sent>>
    /\ UNCHANGED <<bufVars, conVars, nextId, otherThanQueue>>

\* _process_queue: the test of the while loop and, if it passes, one turn of
\* the loop; ok is the outcome of client.publish should the turn call it.
ProcessQueue(ok) ==
    /\ qpc = "loop"
    /\ IF message_queue = <<>> \/ ~connected
          THEN /\ ~ok
               /\ qpc' = "idle"
               /\ UNCHANGED <<message_queue, sent>>
          ELSE \E msg \in {Head(message_queue)} :
               \E age \in {TimedeltaSeconds(qnow - msg.timestamp)} :
                  /\ qpc' = "loop"
                  /\ IF age < StalenessWindow
                        THEN PublishTo(Tail(message_queue), msg.id, ok)
                        ELSE /\ ~ok
                             /\ message_queue' = Tail(message_queue)
                             /\ UNCHANGED sent
    /\ UNCHANGED <<qnow, first_queued>>
    /\ UNCHANGED <<bufVars, conVars, nextId, cliVars, otherThanQueue>>

\* Time passes.
Tick ==
    /\ qnow + 100 <= MaxTime
    /\ qnow' = qnow + 100
    /\ UNCHANGED <<message_queue, qpc, first_queued, sent>>
    /\ UNCHANGED <<bufVars, conVars, nextId, cliVars, otherThanQueue>>

QueueNext ==
    \/ \E m \in Payloads, ok \in BOOLEAN : Publish(m, ok)
    \/ QConnect
    \/ Disconnect
    \/ \E ok \in BOOLEAN : ProcessQueue(ok)
    \/ Tick

QueueSpec == Init /\ [][QueueNext]_vars

\* The network thread keeps running: a _process_queue that was entered goes
\* on with its loop.
QueueFairSpec == QueueSpec /\ WF_vars(\E ok \in BOOLEAN : ProcessQueue(ok))

(***************************************************************************)
(* ZoneManager (zone_manager.py) over the table plant_zones, and the zone  *)
(* lookup of TransformManager (transforms.py), which on_message uses.      *)
(*                                                                         *)
(* Geometry is fixed per zone id and zones do not overlap: zone z1 covers  *)
(* point p1, zone z2 covers point p2, and p0 lies outside every zone.      *)
(* zone_id is the key of plant_zones, so create_zone is called for ids     *)
(* that have no row.                                                       *)
(***************************************************************************)
Points == {"p0", "p1", "p2"}

\* Polygon(vertices).contains(Point(x, y)) for the polygon of zone z.
Contains(z, p) == (z = "z1" /\ p = "p1") \/ (z = "z2" /\ p = "p2")

NoZoneId == "None"

\* ZoneManager.get_zone_at_position: the first polygon that contains the point.
GetZoneAtPosition(p) ==
    IF \E z \in zm_polygons : Contains(z, p)
       THEN CHOOSE z \in zm_polygons : Contains(z, p)
       ELSE NoZoneId

\* TransformManager.get_zone: the first zone of self.zones, the GeoDataFrame
\* read from assets/zones.geojson by __init__, whose geometry contains the point.
TmGetZone(p) ==
    IF \E z \in tm_zones : Contains(z, p)
       THEN CHOOSE z \in tm_zones : Contains(z, p)
       ELSE NoZoneId

\* load_zones over the table db: every active row is (re)assigned into
\* self.zones; entries already there are not cleared.
LoadedZones(db, zones) ==
    [z \in ZoneIds |-> IF db[z].present /\ db[z].active THEN db[z] ELSE zones[z]]

LoadedPolygons(db, polygons) ==
    polygons \cup {z \in ZoneIds : db[z].present /\ db[z].active}

\* create_zone(zone_data): INSERT, then load_zones().
\*   "ok":           both go through; returns True
\*   "insert_fails": the INSERT raises; returns False
\*   "reload_fails": the INSERT is committed and the SELECT of load_zones
\*                   raises; returns False
CreateZone(z, ty, outcome) ==
    LET db == [plant_zones EXCEPT ![z] = ZoneRow(ty)]
    IN  /\ ~plant_zones[z].present
        /\ plant_zones' = IF outcome = "insert_fails" THEN plant_zones ELSE db
        /\ IF outcome = "ok"
              THEN /\ zm_zones' = LoadedZones(db, zm_zones)
                   /\ zm_polygons' = LoadedPolygons(db, zm_polygons)
              ELSE UNCHANGED <<zm_zones, zm_polygons>>
        /\ zlast' = [op |-> "create", zone |-> z, ok |-> outcome = "ok"]
        /\ UNCHANGED <<tm_zones, violations, zcheck>>
        /\ UNCHANGED <<bufVars, conVars, nextId, cliVars, otherThanZoneSteps>>

\* update_zone(zone_id, updates): UPDATE the listed columns, then load_zones().
\*   rules: updates is {'zone_type': ty}; otherwise it names no updatable
\*          column (vertices, say) and update_zone returns False
\*   outcome: as for create_zone ("insert_fails": the UPDATE raises)
UpdateZone(z, rules, ty, outcome) ==
    LET db == IF plant_zones[z].present
                 THEN [plant_zones EXCEPT ![z].zone_type = ty]
                 ELSE plant_zones
        done == rules /\ outcome = "ok"
    IN  /\ plant_zones' = IF rules /\ outcome # "insert_fails" THEN db ELSE plant_zones
        /\ IF done
              THEN /\ zm_zones' = LoadedZones(db, zm_zones)
                   /\ zm_polygons' = LoadedPolygons(db, zm_polygons)
              ELSE UNCHANGED <<zm_zones, zm_polygons>>
        /\ zlast' = [op |-> "update", zone |-> z, ok |-> done]
        /\ UNCHANGED <<tm_zones, violations, zcheck>>
        /\ UNCHANGED <<bufVars, conVars, nextId, cliVars, otherThanZoneSteps>>

\* delete_zone(zone_id): UPDATE ... SET active = FALSE, then drop the zone
\* from self.zones and self.zone_polygons; ok is whether the UPDATE goes through.
DeleteZone(z, ok) ==
    /\ IF ok
          THEN /\ plant_zones' = IF plant_zones[z].present
                                    THEN [plant_zones EXCEPT ![z].active = FALSE]
                                    ELSE plant_zones
               /\ zm_zones' = [zm_zones EXCEPT ![z] = NoZone]
               /\ zm_polygons' = zm_polygons \ {z}
          ELSE UNCHANGED <<plant_zones, zm_zones, zm_polygons>>
    /\ zlast' = [op |-> "delete", zone |-> z, ok |-> ok]
    /\ UNCHANGED <<tm_zones, violations, zcheck>>
    /\ UNCHANGED <<bufVars, conVars, nextId, cliVars, otherThanZoneSteps>>

RegistryStatuses == {"ACTIVE", "MAINTENANCE"}

\* The default max_agvs of a zone (create_zone).
max_agvs == 5

\* _check_authorization(agv_id, zone_id) for a zone row and the status the
\* agv_registry query returns: only a MAINTENANCE zone asks the registry.
CheckAuthorization(zone, status) ==
    IF zone.zone_type = "MAINTENANCE" THEN status = "MAINTENANCE" ELSE TRUE

\* check_zone_rules: the violations for a zone row.
\*   speed: the speed argument (0 stands for None or 0, both falsy)
\*   occupancy: the result of _get_zone_occupancy
ZoneViolations(zone, speed, status, occupancy) ==
    (IF speed # 0 /\ zone.max_speed_mps # 0 /\ speed > zone.max_speed_mps
        THEN {"SPEED_VIOLATION"} ELSE {})
    \cup (IF zone.zone_type = "RESTRICTED" /\ ~CheckAuthorization(zone, status)
           THEN {"UNAUTHORIZED_ACCESS"} ELSE {})
    \cup (IF occupancy >= max_agvs THEN {"ZONE_FULL"} ELSE {})

\* check_zone_rules(agv_id, zone_id, speed); status is the registry status of
\* agv_id at the time of the call.
CheckZoneRules(z, speed, status, occupancy) ==
    /\ violations' = IF zm_zones[z].present
                        THEN ZoneViolations(zm_zones[z], speed, status, occupancy)
                        ELSE {}
    /\ zcheck' = [zone |-> z, known |-> zm_zones[z].present,
                  zone_type |-> zm_zones[z].zone_type, status |-> status]
    /\ UNCHANGED <<plant_zones, zm_zones, zm_polygons, tm_zones, zlast>>
    /\ UNCHANGED <<bufVars, conVars, nextId, cliVars, otherThanZoneSteps>>

ZoneOutcomes == {"ok", "insert_fails", "reload_fails"}

\* The <<speed, occupancy>> pairs check_zone_rules is called with.
CheckInputs == {<<0, 0>>, <<3, 0>>, <<0, 5>>}

ZoneNext ==
    \/ \E z \in ZoneIds, ty \in ZoneTypes, o \in ZoneOutcomes : CreateZone(z, ty, o)
    \/ \E z \in ZoneIds, rules \in BOOLEAN, ty \in ZoneTypes, o \in ZoneOutcomes :
          UpdateZone(z, rules, ty, o)
    \/ \E z \in ZoneIds, ok \in BOOLEAN : DeleteZone(z, ok)
    \/ \E z \in ZoneIds, status \in RegistryStatuses, ci \in CheckInputs :
          CheckZoneRules(z, ci[1], status, ci[2])

ZoneSpec == Init /\ [][ZoneNext]_vars

(***************************************************************************)
(* ZoneManager with a mutation and a lookup in progress at once: the       *)
(* statements of delete_zone and of load_zones' loop, and the turns of the *)
(* for loop of get_zone_at_position, interleave (ZoneManager holds no      *)
(* lock).  One thread mutates, one looks up.  A mutation whose INSERT,     *)
(* UPDATE or SELECT raises leaves the index as it is and is left out.      *)
(* check_zone_rules reads self.zones in one dict.get.                      *)
(***************************************************************************)

readerVars == <<r_pc, r_point, r_visited, r_used, r_result>>

\* The rows the SELECT of load_zones returns.
ActiveRows(db) == {z \in ZoneIds : db[z].present /\ db[z].active}

\* delete_zone(zone_id) as far as the UPDATE.
WDelete(z) ==
    /\ w_pc = "idle"
    /\ plant_zones' = IF plant_zones[z].present
                         THEN [plant_zones EXCEPT ![z].active = FALSE]
                         ELSE plant_zones
    /\ w_pc' = "del_zones"
    /\ w_zone' = z
    /\ UNCHANGED <<zm_zones, zm_polygons, w_rows>>
    /\ UNCHANGED <<readerVars, tm_zones, violations, zcheck, zlast>>
    /\ UNCHANGED <<bufVars, conVars, nextId, cliVars, otherThanZone>>

\* if zone_id in self.zones: del self.zones[zone_id]
WDelZones ==
    /\ w_pc = "del_zones"
    /\ zm_zones' = [zm_zones EXCEPT ![w_zone] = NoZone]
    /\ w_pc' = "del_polygons"
    /\ UNCHANGED <<plant_zones, zm_polygons, w_zone, w_rows>>
    /\ UNCHANGED <<readerVars, tm_zones, violations, zcheck, zlast>>
    /\ UNCHANGED <<bufVars, conVars, nextId, cliVars, otherThanZone>>

\* if zone_id in self.zone_polygons: del self.zone_polygons[zone_id]
WDelPolygons ==
    /\ w_pc = "del_polygons"
    /\ zm_polygons' = zm_polygons \ {w_zone}
    /\ w_pc' = "idle"
    /\ UNCHANGED <<plant_zones, zm_zones, w_zone, w_rows>>
    /\ UNCHANGED <<readerVars, tm_zones, violations, zcheck, zlast>>
    /\ UNCHANGED <<bufVars, conVars, nextId, cliVars, otherThanZone>>

\* create_zone(zone_data) as far as the SELECT of load_zones.
WCreate(z, ty) ==
    /\ w_pc = "idle"
    /\ ~plant_zones[z].present
    /\ plant_zones' = [plant_zones EXCEPT ![z] = ZoneRow(ty)]
    /\ w_rows' = ActiveRows(plant_zones')
    /\ w_pc' = "load"
    /\ UNCHANGED <<zm_zones, zm_polygons, w_zone>>
    /\ UNCHANGED <<readerVars, tm_zones, violations, zcheck, zlast>>
    /\ UNCHANGED <<bufVars, conVars, nextId, cliVars, otherThanZone>>

\* update_zone(zone_id, {'zone_type': ty}) as far as the SELECT of load_zones.
WUpdate(z, ty) ==
    /\ w_pc = "idle"
    /\ plant_zones' = IF plant_zones[z].present
                         THEN [plant_zones EXCEPT ![z].zone_type = ty]
                         ELSE plant_zones
    /\ w_rows' = ActiveRows(plant_zones')
    /\ w_pc' = "load"
    /\ UNCHANGED <<zm_zones, zm_polygons, w_zone>>
    /\ UNCHANGED <<readerVars, tm_zones, violations, zcheck, zlast>>
    /\ UNCHANGED <<bufVars, conVars, nextId, cliVars, otherThanZone>>

\* load_zones, for zone in db_zones: self.zones[zone['zone_id']] = zone, or
\* the end of the loop.  The SELECT has no ORDER BY.
WLoadZone ==
    /\ w_pc = "load"
    /\ IF w_rows = {}
          THEN /\ w_pc' = "idle"
               /\ UNCHANGED <<zm_zones, w_zone>>
          ELSE \E z \in w_rows :
                  /\ zm_zones' = [zm_zones EXCEPT ![z] = plant_zones[z]]
                  /\ w_zone' = z
                  /\ w_pc' = "load_polygon"
    /\ UNCHANGED <<plant_zones, zm_polygons, w_rows>>
    /\ UNCHANGED <<readerVars, tm_zones, violations, zcheck, zlast>>
    /\ UNCHANGED <<bufVars, conVars, nextId, cliVars, otherThanZone>>

\* load_zones: self.zone_polygons[zone['zone_id']] = Polygon(vertices)
WLoadPolygon ==
    /\ w_pc = "load_polygon"
    /\ zm_polygons' = zm_polygons \cup {w_zone}
    /\ w_rows' = w_rows \ {w_zone}
    /\ w_pc' = "load"
    /\ UNCHANGED <<plant_zones, zm_zones, w_zone>>
    /\ UNCHANGED <<readerVars, tm_zones, violations, zcheck, zlast>>
    /\ UNCHANGED <<bufVars, conVars, nextId, cliVars, otherThanZone>>

\* get_zone_at_position(x, y): the for statement creates the iterator of
\* self.zone_polygons.items(), which notes the size of the dict.
RLookup(p) ==
    /\ r_pc = "idle"
    /\ r_pc' = "iter"
    /\ r_point' = p
    /\ r_visited' = {}
    /\ r_used' = Cardinality(zm_polygons)
    /\ r_result' = "pending"
    /\ UNCHANGED <<plant_zones, zm_zones, zm_polygons, w_pc, w_zone, w_rows>>
    /\ UNCHANGED <<tm_zones, violations, zcheck, zlast>>
    /\ UNCHANGED <<bufVars, conVars, nextId, cliVars, otherThanZone>>

\* One turn of the for loop.  The iterator raises RuntimeError (dictionary
\* changed size during iteration) when the dict no longer has the size noted;
\* get_zone_at_position does not catch it.  Zones do not overlap, so the
\* order of the items does not bear on the result.
RIterate ==
    /\ r_pc = "iter"
    /\ IF Cardinality(zm_polygons) # r_used
          THEN /\ r_result' = "RuntimeError"
               /\ r_pc' = "idle"
               /\ UNCHANGED r_visited
          ELSE IF zm_polygons \ r_visited = {}
          THEN /\ r_result' = NoZoneId
               /\ r_pc' = "idle"
               /\ UNCHANGED r_visited
          ELSE \E z \in zm_polygons \ r_visited :
                  IF Contains(z, r_point)
                     THEN /\ r_result' = z
                          /\ r_pc' = "idle"
                          /\ UNCHANGED r_visited
                     ELSE /\ r_visited' = r_visited \cup {z}
                          /\ UNCHANGED <<r_result, r_pc>>
    /\ UNCHANGED <<r_point, r_used>>
    /\ UNCHANGED <<plant_zones, zm_zones, zm_polygons, w_pc, w_zone, w_rows>>
    /\ UNCHANGED <<tm_zones, violations, zcheck, zlast>>
    /\ UNCHANGED <<bufVars, conVars, nextId, cliVars, otherThanZone>>

ZoneConcNext ==
    \/ \E z \in ZoneIds : WDelete(z)
    \/ WDelZones
    \/ WDelPolygons
    \/ \E z \in ZoneIds, ty \in ZoneTypes : WCreate(z, ty)
    \/ \E z \in ZoneIds, ty \in ZoneTypes : WUpdate(z, ty)
    \/ WLoadZone
    \/ WLoadPolygon
    \/ \E p \in Points : RLookup(p)
    \/ RIterate

ZoneConcSpec == Init /\ [][ZoneConcNext]_vars

(***************************************************************************)
(* AnomalyDetector (anomaly_detector.py), one entity.  All numbers are     *)
(* integers; a comparison of floats is modelled exactly (cross-multiplied) *)
(* and the one comparison whose floating-point result rounding decides, a  *)
(* z-score of exactly 3, is an input of the call.                          *)
(***************************************************************************)
HistoryWindow == 31
FitsCap == 2
MaxOther == 2

speed_threshold == 5
acceleration_threshold == 3
idle_threshold == 300
quality_threshold == 30
battery_threshold == 15
sample_rate_hz == 3
StatMinHistory == 10
MlMinHistory == 20
PatternMinHistory == 30

Anomaly(type, severity, field) == [type |-> type, severity |-> severity, field |-> field]

Abs(x) == IF x < 0 THEN -x ELSE x

RECURSIVE SumTo(_, _)
SumTo(s, n) == IF n = 0 THEN 0 ELSE s[n] + SumTo(s, n - 1)

SumSeq(s) == SumTo(s, Len(s))

\* DataFrame.tail(n)
TailN(s, n) == SubSeq(s, Len(s) - Min(n, Len(s)) + 1, Len(s))

Column(h, f) == [i \in 1..Len(h) |-> h[i][f]]

\* np.abs(np.diff(v))
AbsDiffs(v) == [i \in 1..(Len(v) - 1) |-> Abs(v[i + 1] - v[i])]

\* _threshold_detection(data)
ThresholdDetection(d) ==
    (IF d.speed_mps > speed_threshold
        THEN {Anomaly("SPEED_VIOLATION", "WARNING", "")} ELSE {})
    \cup (IF d.quality < quality_threshold
           THEN {Anomaly("LOW_SIGNAL_QUALITY", "WARNING", "")} ELSE {})
    \cup (IF d.battery_percent < battery_threshold
           THEN {Anomaly("LOW_BATTERY",
                         IF d.battery_percent > 10 THEN "WARNING" ELSE "CRITICAL", "")}
           ELSE {})

\* np.abs(stats.zscore(v))[-1] compared with 3, for n = len(v), S the sum and
\* Q the sum of squares: z^2 = (n*last - S)^2 / (n*Q - S^2).  With all values
\* equal the z-score is nan and the comparison is False.
\* (A value is bound with \E x \in {e} so that it is computed once.)
ZNum(v, sum) == (Len(v) * v[Len(v)] - sum) * (Len(v) * v[Len(v)] - sum)
ZDen(v, sum) == Len(v) * SumSeq([i \in 1..Len(v) |-> v[i] * v[i]]) - sum * sum
ZScoreAbove3(v) ==
    \E sum \in {SumSeq(v)} : \E den \in {ZDen(v, sum)} : ZNum(v, sum) > 9 * den
ZScoreIs3(v) ==
    \E sum \in {SumSeq(v)} : \E den \in {ZDen(v, sum)} :
        den > 0 /\ ZNum(v, sum) = 9 * den

StatFields == {"speed_mps", "heading_deg", "quality"}

\* AccelerationAnomaly with the fault that the comparison is >=.
AccelerationAnomalyGeq(h) ==
    Len(h) > 1 /\
    Abs((h[Len(h)].speed_mps - h[Len(h) - 1].speed_mps) * sample_rate_hz)
        >= acceleration_threshold

\* _statistical_detection: abs(np.diff(speeds)[-1] * sample_rate_hz) > threshold
AccelerationAnomaly(h) ==
    Len(h) > 1 /\
    Abs((h[Len(h)].speed_mps - h[Len(h) - 1].speed_mps) * sample_rate_hz)
        > acceleration_threshold

\* StatisticalDetection with the fault that the history's length is not
\* looked at.
StatisticalDetectionNoMin(h, up) ==
    {Anomaly("STATISTICAL_ANOMALY", "INFO", f) :
        f \in {g \in StatFields :
                  \E v \in {Column(h, g)} :
                      /\ Len(v) > 3
                      /\ \/ ZScoreAbove3(v)
                         \/ up /\ ZScoreIs3(v)}}
    \cup (IF AccelerationAnomaly(h)
           THEN {Anomaly("ACCELERATION_ANOMALY", "WARNING", "")} ELSE {})

\* _statistical_detection(data, agv_id) over the history h (data is its last
\* entry); up: rounding puts a z-score of exactly 3 above 3.
StatisticalDetection(h, up) ==
    IF Len(h) < StatMinHistory THEN {}
    ELSE {Anomaly("STATISTICAL_ANOMALY", "INFO", f) :
             f \in {g \in StatFields :
                       \E v \in {Column(h, g)} :
                           /\ Len(v) > 3
                           /\ \/ ZScoreAbove3(v)
                              \/ up /\ ZScoreIs3(v)}}
         \cup (IF AccelerationAnomaly(h)
                THEN {Anomaly("ACCELERATION_ANOMALY", "WARNING", "")} ELSE {})

\* _pattern_detection: idle_count / sample_rate_hz > idle_threshold over the
\* last 30 speeds (speed < 0.1 is speed = 0 for integer speeds).
ExcessiveIdle(h) ==
    \E recent \in {TailN(h, 30)} :
        Cardinality({i \in 1..Len(recent) : recent[i].speed_mps = 0})
            > idle_threshold * sample_rate_hz

\* _pattern_detection: over the last 20 positions, total_distance > 0 and
\* displacement / total_distance < 0.2.
CircularMovement(h) ==
    \E xs \in {Column(TailN(h, 20), "plant_x")} :
        \E total \in {SumSeq(AbsDiffs(xs))} :
            \E displacement \in {Abs(xs[Len(xs)] - xs[1])} :
                Len(xs) > 10 /\ total > 0 /\ 5 * displacement < total

\* _pattern_detection: the mean of the wrap-around-corrected heading changes
\* over the last 10 headings is above 45.
ErraticHeading(h) ==
    \E ad \in {AbsDiffs(Column(TailN(h, 10), "heading_deg"))} :
        \E ch \in {[i \in 1..Len(ad) |-> Min(ad[i], 360 - ad[i])]} :
            SumSeq(ch) > 45 * Len(ch)

\* _pattern_detection(data, agv_id)
PatternDetection(h) ==
    IF Len(h) < PatternMinHistory THEN {}
    ELSE (IF ExcessiveIdle(h) THEN {Anomaly("EXCESSIVE_IDLE", "WARNING", "")} ELSE {})
         \cup (IF CircularMovement(h)
                THEN {Anomaly("CIRCULAR_MOVEMENT", "WARNING", "")} ELSE {})
         \cup (IF ErraticHeading(h)
                THEN {Anomaly("ERRATIC_HEADING", "INFO", "")} ELSE {})

\* _ml_detection trains a model: only when the history has 20 entries or more
\* and the entity has no model yet.
TrainsModel(h, m) == Len(h) >= MlMinHistory /\ m = 0

\* _ml_detection(data, agv_id) with the model m it predicts with; novel is the
\* verdict of IsolationForest.predict (-1), which the model does not compute.
MlDetection(h, m, novel) ==
    IF Len(h) >= MlMinHistory /\ m # 0 /\ novel
       THEN {Anomaly("ML_ANOMALY", "INFO", "")} ELSE {}

\* The readings of entity "A1": it reports one reading of BaseReadings again
\* and again and, at most once, a reading that differs from it in one field.
\* Entity "A2" reports the first of BaseReadings, MaxOther times at most.
Speeds == {2, 7, 8}
BaseReadings == {Reading(sp, 90, 100, 0) : sp \in Speeds}
Deviations(b) ==
    {[b EXCEPT !.speed_mps = IF b.speed_mps = 8 THEN 2 ELSE 8],
     [b EXCEPT !.heading_deg = 270], [b EXCEPT !.battery_percent = 5],
     [b EXCEPT !.plant_x = 5]}
Feed(a) ==
    IF a # "A1" THEN (IF checks[a] < MaxOther THEN {Reading(2, 90, 100, 0)} ELSE {})
    ELSE IF base = NoReading THEN BaseReadings
    ELSE IF spiked THEN {base} ELSE {base} \cup Deviations(base)

\* check(data) with data['agv_id'] = a: append to the entity's history, run
\* the four methods.  (_log_anomalies, the event writes, is part of
\* on_message's model.)
DetCheck(a, d, novel, up) ==
    \E h \in {DequeAppend(history[a], d, HistoryWindow)} :
    \E m \in {IF TrainsModel(h, models[a]) THEN Len(h) ELSE models[a]} :
        /\ d \in Feed(a)
        /\ novel => Len(h) >= MlMinHistory
        /\ up => \E f \in StatFields : \E v \in {Column(h, f)} : ZScoreIs3(v)
        /\ base' = IF a = "A1" /\ base = NoReading THEN d ELSE base
        /\ spiked' = (spiked \/ (a = "A1" /\ base # NoReading /\ d # base))
        /\ history' = [history EXCEPT ![a] = h]
        /\ models' = [models EXCEPT ![a] = m]
        /\ checked' = a
        /\ checks' = [checks EXCEPT ![a] = Min(@ + 1, HistoryWindow + 1)]
        /\ fits' = IF TrainsModel(h, models[a])
                    THEN [fits EXCEPT ![a] = Min(@ + 1, FitsCap)] ELSE fits
        /\ anomalies' = ThresholdDetection(d) \cup StatisticalDetection(h, up)
                            \cup MlDetection(h, m, novel) \cup PatternDetection(h)
        /\ UNCHANGED <<bufVars, conVars, nextId, cliVars, otherThanDet>>

\* check() calls for one entity.
DetNextOf(a) ==
    \E d \in Feed(a), novel, up \in BOOLEAN : DetCheck(a, d, novel, up)

DetNext == \E a \in AgvIds : DetNextOf(a)

DetSpec == Init /\ [][DetNext]_vars

\* Entity "A1" is the only one to report, and its readings keep arriving: it
\* goes on reporting its reading.
DetFairSpec ==
    /\ Init
    /\ [][DetNextOf("A1")]_vars
    /\ WF_vars(\E novel \in BOOLEAN : DetCheck("A1", base, novel, FALSE))

(***************************************************************************)
(* DataValidator (data_validator.py)                                       *)
(***************************************************************************)
MaxValidations == 2
MaxDeviations == 2

MaxAgeSeconds == 3600
SpeedCeiling == 10

\* The schema's "minimum" and "maximum" keywords, by property.
Minimum == [lat |-> -90, lon |-> -180, heading_deg |-> 0, speed_mps |-> 0,
            quality |-> 0, battery_percent |-> 0]
Maximum == [lat |-> 90, lon |-> 180, heading_deg |-> 360, quality |-> 1,
            battery_percent |-> 100]

\* jsonschema.validate(data, self.schema) raises no ValidationError.
SchemaOk(d) ==
    /\ "agv_id" \in DOMAIN d
    /\ d["agv_id"] # ""
    /\ \A f \in DOMAIN d \cap DOMAIN Minimum : d[f] >= Minimum[f]
    /\ \A f \in DOMAIN d \cap DOMAIN Maximum : d[f] <= Maximum[f]

\* The timestamp rule: a failure to parse is swallowed by the bare except.
TooOld(d) ==
    /\ "ts" \in DOMAIN d
    /\ d["ts"].parseable
    /\ d["ts"].age > MaxAgeSeconds

BusinessRulesNoCeiling(d) == ~TooOld(d)

BusinessRules(d) ==
    /\ ~TooOld(d)
    /\ ~("speed_mps" \in DOMAIN d /\ d["speed_mps"] > SpeedCeiling)

\* The value validate(d) returns.
Validates(d) == SchemaOk(d) /\ BusinessRules(d)

\* The values a reading's field takes here: for a number, the two ends of the
\* schema's range and the integers just outside them.
FieldValues(f) ==
    CASE f = "agv_id" -> {"", "A1"}
      [] f = "ts" -> {TsUnparseable, TsAge(MaxAgeSeconds), TsAge(MaxAgeSeconds + 1)}
      [] f = "lat" -> {-91, -90, 90, 91}
      [] f = "lon" -> {-181, -180, 180, 181}
      [] f = "heading_deg" -> {-1, 0, 360, 361}
      [] f = "speed_mps" -> {-1, 0, SpeedCeiling, SpeedCeiling + 1}
      [] f = "quality" -> {-1, 0, 1, 2}
      [] f = "battery_percent" -> {-1, 0, 100, 101}

\* The fields in which reading d is not the base reading.
Deviating(d) == {f \in Fields : f \notin DOMAIN d \/ d[f] # BaseData[f]}

\* The broker delivers a reading that carries field f with value v ...
SetField(f, v) ==
    \E d \in {[g \in DOMAIN vdata \cup {f} |-> IF g = f THEN v ELSE vdata[g]]} :
        /\ d # vdata
        /\ Cardinality(Deviating(d)) <= MaxDeviations
        /\ vdata' = d
        /\ vret' = [called |-> FALSE, val |-> FALSE]
        /\ UNCHANGED <<vstats, bufVars, conVars, nextId, cliVars, otherThanVal>>

\* ... or one without field f.
DropField(f) ==
    \E d \in {[g \in DOMAIN vdata \ {f} |-> vdata[g]]} :
        /\ f \in DOMAIN vdata
        /\ Cardinality(Deviating(d)) <= MaxDeviations
        /\ vdata' = d
        /\ vret' = [called |-> FALSE, val |-> FALSE]
        /\ UNCHANGED <<vstats, bufVars, conVars, nextId, cliVars, otherThanVal>>

\* validate(vdata)
ValidateCall ==
    /\ vstats.valid + vstats.invalid < MaxValidations
    /\ vstats' = IF Validates(vdata)
                 THEN [vstats EXCEPT !.valid = @ + 1]
                 ELSE [vstats EXCEPT !.invalid = @ + 1]
    /\ vret' = [called |-> TRUE, val |-> Validates(vdata)]
    /\ UNCHANGED <<vdata, bufVars, conVars, nextId, cliVars, otherThanVal>>

ValNext ==
    \/ \E f \in Fields : \E v \in FieldValues(f) : SetField(f, v)
    \/ \E f \in Fields : DropField(f)
    \/ ValidateCall

ValSpec == Init /\ [][ValNext]_vars

(***************************************************************************)
(* TransformManager (transforms.py): to_plant_coords and calibrate         *)
(***************************************************************************)
CacheBound == 2

\* Geodetic positions of readings, in grid steps from a reference corner.
Lats == 0..1
Lons == 0..1

\* transformer.transform(lon, lat): with always_xy the easting comes from the
\* longitude and the northing from the latitude; over the grid it is taken
\* as one metric unit per step.
Project(lat, lon) == <<lon, lat>>

\* self.affine_matrix @ [x, y, 1.0], first two components.
ApplyAffine(m, p) == <<m.a * p[1] + m.b * p[2] + m.tx,
                       m.c * p[1] + m.d * p[2] + m.ty>>

\* The matrices calibrate can arrive at: no correction, or a shift by one.
Matrices == {Eye3, [Eye3 EXCEPT !.tx = 1]}

\* Readings handed to to_plant_coords: geodetic ones, and ones that carry
\* plant_x and plant_y already.
TrReadings ==
    {[local |-> FALSE, lat |-> la, lon |-> lo, plant_x |-> 0, plant_y |-> 0] :
        la \in Lats, lo \in Lons}
    \cup {[local |-> TRUE, lat |-> 0, lon |-> 0, plant_x |-> 5, plant_y |-> 5]}

\* self.cache[cache_key] = (plant_x, plant_y)
CachePut(c, key, val) ==
    [k \in DOMAIN c \cup {key} |-> IF k = key THEN val ELSE c[k]]

\* to_plant_coords(d)
ToPlantCoords(d) ==
    \E key \in {<<d.lat, d.lon>>} :
    \E val \in {ApplyAffine(affine_matrix, Project(d.lat, d.lon))} :
        /\ d \in TrReadings
        /\ IF d.local
           THEN /\ tret' = [called |-> TRUE, local |-> TRUE, hit |-> FALSE,
                            lat |-> d.lat, lon |-> d.lon,
                            x |-> d.plant_x, y |-> d.plant_y,
                            matrix |-> affine_matrix]
                /\ UNCHANGED cache
           ELSE IF key \in DOMAIN cache
           THEN /\ tret' = [called |-> TRUE, local |-> FALSE, hit |-> TRUE,
                            lat |-> d.lat, lon |-> d.lon,
                            x |-> cache[key][1], y |-> cache[key][2],
                            matrix |-> affine_matrix]
                /\ UNCHANGED cache
           ELSE /\ tret' = [called |-> TRUE, local |-> FALSE, hit |-> FALSE,
                            lat |-> d.lat, lon |-> d.lon,
                            x |-> val[1], y |-> val[2],
                            matrix |-> affine_matrix]
                /\ cache' = CachePut(cache, key, val)
        /\ UNCHANGED <<affine_matrix, bufVars, conVars, nextId, cliVars, otherThanTr>>

\* calibrate(control_points) with n control points whose least-squares fit
\* is m; fewer than 3 points raise ValueError before anything is assigned.
Calibrate(n, m) ==
    /\ m \in Matrices
    /\ affine_matrix' = IF n < 3 THEN affine_matrix ELSE m
    /\ affine_matrix' # affine_matrix
    /\ UNCHANGED <<cache, tret, bufVars, conVars, nextId, cliVars, otherThanTr>>

TransformNext ==
    \/ \E d \in TrReadings : ToPlantCoords(d)
    \/ \E n \in 2..3, m \in Matrices : Calibrate(n, m)

TransformSpec == Init /\ [][TransformNext]_vars

(***************************************************************************)
(* The periodic_flush thread and every started _flush_buffer call keep     *)
(* running; nothing obliges the broker to deliver or a signal to arrive.   *)
(***************************************************************************)
FairSpec ==
    /\ Spec
    /\ WF_vars(PfLoop)
    /\ WF_vars(PfCheck)
    /\ WF_vars(OmShouldFlush)
    /\ WF_vars(StopDisconnect)
    /\ \A c \in Contexts :
          /\ WF_vars(FlushGetBatch(c))
          /\ WF_vars(\E k \in 0..MaxSize : FlushWrite(c, k))
          /\ WF_vars(FlushReadd(c))
          /\ WF_vars(FlushReaddDone(c))

(***************************************************************************)
(* Claims                                                                  *)
(***************************************************************************)

RetryData == {retry_buffer[i].data : i \in 1..Len(retry_buffer)}
InFlight == UNION {Range(batch[c]) : c \in Contexts}
IsIncreasing(s) == \A i, j \in 1..Len(s) : i < j => s[i] < s[j]

\* A step that is a call add(data) on the main buffer (data is fresh).
IsAddStep == ret'.arg # ret.arg /\ ~ret'.retry

\* C1: add(data) on a main buffer that already holds max_size items returns
\* False, leaves the buffer as it was and increments 'dropped' by one; add on
\* a buffer that is not full leaves 'dropped' alone.
C1_AddOnFullSheds ==
    [][IsAddStep =>
          IF Len(buffer) = MaxSize
             THEN /\ ret'.val = FALSE
                  /\ buffer' = buffer
                  /\ stats'.dropped = stats.dropped + 1
             ELSE stats'.dropped = stats.dropped]_vars

\* C2: every reading add() accepted is in the main buffer, in the retry
\* buffer, committed to the sink, or accounted for by 'dropped' (a reading in
\* a drained batch whose write or re-enqueue is still going on is not counted
\* as lost).
C2_NoSilentLoss ==
    Cardinality(accepted \ (Range(buffer) \cup RetryData \cup sink \cup InFlight))
        <= stats.dropped

\* The except branch of context c's _flush_buffer has finished.
ReenqueueDone(c) == pc[c] = "readd" /\ ri[c] = Len(batch[c])

AllInRetryOnce(b) ==
    \A i \in 1..Len(b) :
        Cardinality({j \in 1..Len(retry_buffer) :
                        retry_buffer[j] = [data |-> b[i], attempts |-> 1]}) = 1

C4_RetryEventuallyResolved ==
    \A r \in 1..MaxMsgs :
        (r \in RetryData) ~>
            \/ r \notin RetryData /\ (r \in sink \/ stats.dropped > 0)
            \/ pc["stop"] # "idle"

\* C5: when a batch write has reported failure, none of the batch's readings
\* is committed to the sink.
C5_BatchWriteAllOrNothing ==
    \A c \in Contexts : pc[c] = "readd" => Range(batch[c]) \cap sink = {}

\* C6: a reading whose anomaly-event write failed is still added to the
\* ingest buffer.
C6_EventFailureKeepsReading ==
    lastMsg.evFail => lastMsg.id \in accepted

\* C7: once stop() has returned, the connection is closed and every reading
\* that was in the ingest buffer when stop() began is committed to the sink
\* (a reading the periodic flush thread drained meanwhile and is still
\* writing is not counted as lost).
C7_ShutdownPersistsBuffer ==
    pc["stop"] = "stopped" =>
        /\ client = "closed"
        /\ Range(stopSnap) \subseteq (sink \cup Range(batch["pf"]))

\* C8: readings are buffered and drained in delivery order: the readings
\* popped so far, in pop order, followed by the buffer's contents, are in
\* increasing order of delivery.
C8_FifoOrder == IsIncreasing(drained \o buffer)

\* Two batches drained by different contexts (periodic_flush, then stop())
\* are being written at the same time.
C8_Witness ==
    /\ pc["pf"] = "write" /\ Len(batch["pf"]) >= 2
    /\ pc["stop"] = "write" /\ Len(batch["stop"]) >= 1
    /\ buffer = <<>>

\* C9: while the connection is lost, a reconnect attempt is scheduled: every
\* failed reconnect attempt is followed by another scheduled attempt.
C9_ReconnectKeepsBeingScheduled ==
    (needReconnect /\ ~connected) => reconnect_timer = "pending"

\* C10: after every successful connect the subscribed set equals the set of
\* topics passed to subscribe() and not since removed by unsubscribe().
C10_ResubscribeExactlyWanted ==
    [][(~connected /\ connected') => subscribed' = wanted']_vars

\* C11: every anomaly emitted for a reading is persisted exactly once: the
\* number of event writes on_message issues for the reading equals the number
\* of anomalies the detection methods emitted for it.
C11_EventWrittenOncePerAnomaly ==
    lastMsg.issued = lastMsg.emitted

\* C12: a reading the validator rejects is discarded and counted: at its
\* delivery no later stage of on_message runs on it (no transform, no zone
\* lookup, no history append, no add), the buffers and the sink stay as they
\* were and messages_failed goes up by one; and no reading that was not
\* accepted is ever in a buffer, in a batch or in the sink.
C12_RejectedDiscardedAndCounted ==
    /\ [][(lastMsg'.id # lastMsg.id /\ ~lastMsg'.valid) =>
             /\ lastMsg'.stages = {}
             /\ lastMsg'.issued = 0
             /\ buffer' = buffer /\ retry_buffer' = retry_buffer
             /\ sink' = sink /\ accepted' = accepted
             /\ cstats'.failed = cstats.failed + 1]_vars
    /\ []((Range(buffer) \cup RetryData \cup sink \cup InFlight) \subseteq accepted)

\* A reading was rejected while earlier readings sat in the ingest buffer.
C12_Witness ==
    /\ lastMsg.id > 1 /\ ~lastMsg.valid
    /\ cstats.failed > 0
    /\ Len(buffer) > 0

\* C13: on_message performs no sink or database write in its own execution
\* context: it never runs the batch write of _flush_buffer and it issues no
\* event write; it only enqueues into the ingest buffer.
C13_CallbackOnlyEnqueues ==
    /\ pc["om"] \notin {"get_batch", "write", "readd"}
    /\ lastMsg.issued = 0

\* C16: the model fitted on first use does not stay in use forever: with
\* readings for the entity continuing, _train_model eventually fits a second
\* model, which replaces the first.
C16_ModelEventuallyRetrained ==
    (models["A1"] # 0 /\ fits["A1"] = 1) ~> (fits["A1"] > 1)

\* The history is 30 identical readings followed by one reading that differs
\* from them in its speed only (if at all), 8 m/s, and check() has just run
\* on that last reading.
SpeedJumpScenario ==
    /\ checked = "A1"
    /\ Len(history["A1"]) = PatternMinHistory + 1
    /\ \A i \in 1..PatternMinHistory : history["A1"][i] = base
    /\ history["A1"][PatternMinHistory + 1] = [base EXCEPT !.speed_mps = 8]

SpeedViolation == Anomaly("SPEED_VIOLATION", "WARNING", "")

\* C17 as claimed: in that scenario check() emits the SPEED_VIOLATION of
\* severity WARNING and nothing else; in particular nothing from the
\* statistical and the pattern method (the learned-model verdict, which the
\* model leaves open, is not held against the claim).
C17_OnlySpeedViolation ==
    SpeedJumpScenario =>
        /\ SpeedViolation \in anomalies
        /\ \A a \in anomalies : a.type \in {"SPEED_VIOLATION", "ML_ANOMALY"}

\* C17 as amended: in that scenario check() emits, the learned-model verdict
\* aside, the SPEED_VIOLATION of severity WARNING, a STATISTICAL_ANOMALY on
\* speed_mps exactly when the 30 readings' speed is not 8 as well, an
\* ACCELERATION_ANOMALY exactly when the jump times the sample rate exceeds
\* 3 m/s^2, and nothing else.
C17_SpeedViolationAndSpeedStatistics ==
    SpeedJumpScenario =>
        {a \in anomalies : a.type # "ML_ANOMALY"} =
            {SpeedViolation}
            \cup (IF base.speed_mps # 8
                   THEN {Anomaly("STATISTICAL_ANOMALY", "INFO", "speed_mps")} ELSE {})
            \cup (IF Abs(8 - base.speed_mps) * sample_rate_hz > acceleration_threshold
                   THEN {Anomaly("ACCELERATION_ANOMALY", "WARNING", "")} ELSE {})

\* The scenario with 30 readings at 2 m/s: check() has run on the jump to 8.
C17_Witness ==
    /\ SpeedJumpScenario
    /\ base.speed_mps = 2
    /\ SpeedViolation \in anomalies

\* C20: whatever add and get_batch calls have run, the main buffer of a
\* BufferManager of capacity max_size holds at most max_size items.
C20_BufferWithinCapacity == Len(buffer) <= MaxSize

\* add(data) has been called on a full main buffer, which is full again.
C20_Witness == Len(buffer) = MaxSize /\ stats.added > MaxSize

\* C14: after a successful create_zone, update_zone or delete_zone the next
\* lookup observes the new state on every lookup path (ZoneManager's and the
\* one on_message uses, TransformManager.get_zone): a created zone is returned
\* for the points inside it, the rule attributes evaluated are the updated
\* ones, and a deleted zone is returned for no point.
C14_LookupObservesMutation ==
    /\ (zlast.ok /\ zlast.op = "create") =>
          \A p \in Points : Contains(zlast.zone, p) =>
              GetZoneAtPosition(p) = zlast.zone /\ TmGetZone(p) = zlast.zone
    /\ (zlast.ok /\ zlast.op = "update" /\ plant_zones[zlast.zone].active) =>
          zm_zones[zlast.zone] = plant_zones[zlast.zone]
    /\ \A z \in ZoneIds : (plant_zones[z].present /\ ~plant_zones[z].active) =>
          \A p \in Points : GetZoneAtPosition(p) # z /\ TmGetZone(p) # z

\* C15: check_zone_rules reports UNAUTHORIZED_ACCESS only for a RESTRICTED or
\* MAINTENANCE zone, and does report it for an entity inside a MAINTENANCE
\* zone whose registry status is not MAINTENANCE.
C15_UnauthorizedAccessReported ==
    zcheck.known =>
        /\ ("UNAUTHORIZED_ACCESS" \in violations) =>
               zcheck.zone_type \in {"RESTRICTED", "MAINTENANCE"}
        /\ (zcheck.zone_type = "MAINTENANCE" /\ zcheck.status # "MAINTENANCE") =>
               "UNAUTHORIZED_ACCESS" \in violations

C19_CacheBounded == Cardinality(DOMAIN cache) <= CacheBound

\* C30: every to_plant_coords result for a geodetic reading is the projection
\* of its (lat, lon) under the affine matrix installed when the call ran, also
\* for a pair memoized before calibrate() installed that matrix.
C30_ResultUsesCurrentMatrix ==
    (tret.called /\ ~tret.local) =>
        <<tret.x, tret.y>> = ApplyAffine(tret.matrix, Project(tret.lat, tret.lon))

\* C25: the check() call just made for an entity emitted nothing from the
\* statistical method if the entity's history, the current reading counted,
\* holds fewer than 10 readings, nothing from the learned-model method below
\* 20 and nothing from the pattern method below 30, while the threshold method
\* ran whatever the length (a reading above 5 m/s has its SPEED_VIOLATION);
\* and no entity's history ever gets shorter, so eligibility is never lost.
C25_MethodsWaitForMinimumHistory ==
    /\ [](LET h == history[checked]
              types == {a.type : a \in anomalies}
          IN  /\ Len(h) < 10 =>
                    types \cap {"STATISTICAL_ANOMALY", "ACCELERATION_ANOMALY"} = {}
              /\ Len(h) < 20 => "ML_ANOMALY" \notin types
              /\ Len(h) < 30 =>
                    types \cap {"EXCESSIVE_IDLE", "CIRCULAR_MOVEMENT",
                                "ERRATIC_HEADING"} = {}
              /\ (Len(h) >= 1 /\ h[Len(h)].speed_mps > 5) =>
                    "SPEED_VIOLATION" \in types)
    /\ [][\A a \in AgvIds : Len(history'[a]) >= Len(history[a])]_vars

\* The statistical method emitted on the reading that brought the history
\* of "A1" to 10 readings.
C25_Witness ==
    /\ checked = "A1"
    /\ Len(history["A1"]) = 10
    /\ "ACCELERATION_ANOMALY" \in {a.type : a \in anomalies}

\* C26: after k check() calls for an entity its history holds min(k, capacity)
\* readings (none before the first call); each call appends its reading at
\* the end, dropping the oldest one when the history was full and keeping the
\* others in order; and the other entities' histories stay as they were.
C26_HistoryIsMostRecentWindow ==
    /\ [](\A a \in AgvIds : Len(history[a]) = Min(checks[a], HistoryWindow))
    /\ [][LET a == checked'
              h == history[a]
              h2 == history'[a]
          IN  /\ Len(h2) >= 1
              /\ h2 = Append(IF Len(h) < HistoryWindow THEN h ELSE Tail(h),
                             h2[Len(h2)])
              /\ \A b \in AgvIds \ {a} : history'[b] = history[b]
         ]_vars

\* "A1" has been checked once more than its history holds, after its one
\* deviating reading and after "A2" was sighted; the deviating reading has
\* moved up towards the oldest end.
C26_Witness ==
    /\ checked = "A1"
    /\ checks["A1"] = HistoryWindow + 1
    /\ Len(history["A2"]) >= 1
    /\ history["A1"][HistoryWindow - 1] # base
    /\ history["A1"][HistoryWindow] = base

\* C21: however the add and get_batch calls of the message callback, the
\* periodic flush thread and the shutdown flush interleave, no reading is
\* returned by two get_batch calls (nor twice by one), no reading is both
\* returned and still in the main buffer, and every reading added to the
\* main buffer is in one of the two.
C21_DrainedOrBufferedNeverBoth ==
    /\ Cardinality(Range(drained)) = Len(drained)
    /\ \A c1, c2 \in Contexts :
          c1 # c2 => Range(batch[c1]) \cap Range(batch[c2]) = {}
    /\ Range(drained) \cap Range(buffer) = {}
    /\ accepted = Range(drained) \cup Range(buffer)

\* A reading was added while the periodic flush had drained a batch and not
\* yet written it.
C21_Witness ==
    /\ pc["pf"] = "write"
    /\ batch["pf"] # <<>>
    /\ lastMsg.id \in Range(buffer)
    /\ lastMsg.id > batch["pf"][Len(batch["pf"])]

\* C22: while the consumer runs (stop() has not begun), a reading in the main
\* buffer is eventually drained by a get_batch and its batch handed to the
\* batch write, whatever the buffer's occupancy.
C22_BufferedEventuallyWritten ==
    \A r \in 1..MaxMsgs :
        (r \in Range(buffer)) ~>
            \/ /\ r \in Range(drained)
               /\ \A c \in Contexts : r \in Range(batch[c]) => pc[c] # "write"
            \/ pc["stop"] # "idle"

\* The periodic flush has drained a buffer that was below the 80% threshold
\* and its batch write has run.
C22_Witness ==
    /\ pc["pf"] = "readd"
    /\ batch["pf"] # <<>>
    /\ ~ShouldFlush(batch["pf"])
    /\ pc["stop"] = "idle"

\* C23: a pending reconnect timer waits min(base_delay * 2^attempt, max_delay),
\* attempt being the number of connect() calls made since the connection was
\* last established when the timer was started (so the first reconnect after
\* an established connection drops waits the base delay), and never more
\* than the cap.
C23_BackoffRestartsAfterSuccess ==
    reconnect_timer = "pending" =>
        /\ timer_delay = Min(reconnect_delay * (2 ^ timer_attempt), max_reconnect_delay)
        /\ timer_delay <= max_reconnect_delay

\* C28: once disconnect() has been called (and until the owner calls
\* connect() again) the client is not connected: no reconnect timer started
\* before the disconnect fires a connect() that brings the connection back.
C28_NoReconnectAfterDisconnect ==
    closed => ~connected /\ ~awaiting

\* C24: a payload that client.publish accepted was, at that moment, less
\* than 5 minutes past the first time it was handed to publish(): one first
\* queued 5 minutes ago or more is never published, a failed replay and a
\* second queueing notwithstanding.
C24_StaleNeverReplayed ==
    \A p \in sent : p.age < 300

\* C29: a _process_queue that on_connect entered returns.
C29_ProcessQueueTerminates ==
    (qpc = "loop") ~> (qpc = "idle")

\* C27: a lookup that runs while a zone is created, updated or deleted sees
\* the two maps of the index agree on which zones exist at every turn of
\* its loop, and does not fail because the index changed under it.
C27_LookupSeesConsistentSnapshot ==
    /\ r_pc = "iter" => \A z \in ZoneIds : zm_zones[z].present <=> z \in zm_polygons
    /\ r_result # "RuntimeError"

====
